---- MODULE Spec2Model ----
(***************************************************************************)
(* Polling loops of the example notebooks.                                 *)
(*                                                                         *)
(* wait_till_delete (sm_pipeline_with_amazon_forecast.ipynb, clean-up      *)
(* section) is modelled statement by statement: the loop test, the call of *)
(* the callback inside try/except, the sleep and the accumulation of       *)
(* elapsed_time.  Two drivers call it:                                     *)
(*   Spec        a harness calling it with arbitrary arguments, several    *)
(*               times in a row;                                           *)
(*   CleanupSpec the notebook's clean-up cells, run top to bottom.         *)
(* FairSpec and AnyCallerSpec add that a started call runs to its end.     *)
(*                                                                         *)
(* The training status loop (xgboost_parquet_input_training.ipynb) is      *)
(* TrainSpec, and TrainFairSpec with every statement eventually executed.  *)
(***************************************************************************)
EXTENDS Integers, Sequences, FiniteSets, TLC

\* ------------------------------------------------------------------ bounds
MaxCheck == 2      \* check_time ranges over 1..MaxCheck in the harness
MaxTimeout == 5    \* finite timeouts range over 0..MaxTimeout in the harness
MaxK == 3          \* a harness probe raises on call 1..MaxK, or never
MaxCalls == 5      \* cap on callback calls of a wait with timeout = None
MaxInv == 2        \* number of consecutive harness invocations
MaxPolls == 4      \* describe and sleep calls of the training loop are counted up to here

\* ------------------------------------------------------- program constants
DEFAULT_CHECK_TIME == 5     \* def wait_till_delete(callback, check_time=5, ...
DEFAULT_TIMEOUT == 100      \* ... timeout=100)
POLL_SECONDS == 60          \* time.sleep(60) of the training loop

\* Python's None and an int are kept apart: None is <<>>, the number t is <<t>>.
None == <<>>
Secs(t) == <<t>>
SecsOf(v) == v[1]

\* What one call of the callback can do: return normally, or raise.
Returned == "returned"
NotFound == "ResourceNotFoundException"     \* ClientError, the code tested for
InUse == "ResourceInUseException"           \* ClientError with another code
ConnError == "EndpointConnectionError"      \* not a ClientError at all
Raises == {NotFound, InUse, ConnError}
IsClientError(o) == o \in {NotFound, InUse}

\* Keys of model_params naming the Forecast resources, in clean-up order.
CleanupKeys ==
    << "forecast_arn_predictor",
       "target_import_job_arn", "related_import_job_arn",
       "target_dataset_arn", "related_dataset_arn",
       "dataset_group_arn" >>
HarnessKey == "X"
LateBound == "arn"      \* a lambda that reads the global arn when it is called
Keys == {CleanupKeys[i] : i \in 1..Len(CleanupKeys)} \cup {HarnessKey}

VARIABLES
    \* the frame of the running wait_till_delete call
    callback,       \* [key, raisesAt, kind]: the lambda and what the service answers
    check_time,
    timeout,        \* None or Secs(t)
    elapsed_time,
    pc,             \* "idle" | "while" | "try" | "sleep" | "done" | "error" | "timed_out"
    raised,         \* the exception leaving the call, "" when none
    \* what the call did so far
    trace,          \* sequence of [ev, out, key, secs]: callback calls and sleeps
    \* the harness
    inv,            \* number of the invocation, 0 before the first
    prev,           \* outcome and elapsed_time of the preceding invocation
    \* the notebook's clean-up cells
    cell,           \* 0 = not a notebook run, 1..5 = cell being run, 6 = all cells ran
    iter,           \* iteration of the cell's for loop (1 outside loops)
    arn,            \* the notebook global assigned by the for loops
    status,         \* per key: "not_started" | "polling" | "done" | "error" | "timed_out"
    requested,      \* the keys a delete request was sent for
    stopped,        \* an exception left a cell: the run stopped there
    pipeline_deleted,
    \* the training cell of the XGBoost notebook
    train_pc,           \* "off" | "create" | "describe" | "print" | "while" | "sleep" | "exited"
    TrainingJobStatus,  \* the notebook's status variable, "" before the first describe
    printed,            \* the status printed last, "" before the first print
    describes,          \* describe_training_job calls made, counted up to MaxPolls
    train_sleeps,       \* time.sleep calls made, counted up to MaxPolls
    last_sleep          \* seconds of the last sleep, 0 before the first

training == << train_pc, TrainingJobStatus, printed, describes, train_sleeps,
              last_sleep >>

vars == << callback, check_time, timeout, elapsed_time, pc, raised, trace,
           inv, prev, cell, iter, arn, status, requested, stopped, pipeline_deleted,
           training >>

frame == << callback, check_time, timeout, elapsed_time, pc, raised, trace >>
notebook == << cell, iter, arn, status, stopped, pipeline_deleted >>

Polling == {"while", "try", "sleep"}
Terminal == {"done", "error", "timed_out"}

\* The training cell is not being run.
TrainingOff ==
    /\ train_pc = "off"
    /\ TrainingJobStatus = ""
    /\ printed = ""
    /\ describes = 0
    /\ train_sleeps = 0
    /\ last_sleep = 0

\* ------------------------------------------------------------ the callback
\* The n-th call of the callback: it returns normally except on call raisesAt.
CallbackOutcome(cb, n) ==
    IF cb.raisesAt = n THEN cb.kind ELSE Returned

\* The resource a call of the lambda deletes: the cells' loop lambdas read arn
\* when called, the others name their key.
Target(cb) == IF cb.key = LateBound THEN arn ELSE cb.key

Probe(key, k, kind) == [key |-> key, raisesAt |-> k, kind |-> kind]
NoProbe == Probe(HarnessKey, 0, NotFound)

Calls(tr) == Len(SelectSeq(tr, LAMBDA e : e.ev = "call"))
Sleeps(tr) == Len(SelectSeq(tr, LAMBDA e : e.ev = "sleep"))
RECURSIVE Slept(_)
Slept(tr) ==
    IF tr = << >> THEN 0
    ELSE (IF tr[1].ev = "sleep" THEN tr[1].secs ELSE 0) + Slept(Tail(tr))

CallEv(o, key) == [ev |-> "call", out |-> o, key |-> key, secs |-> 0]
SleepEv(s) == [ev |-> "sleep", out |-> "", key |-> "", secs |-> s]

\* -------------------------------------------------------- wait_till_delete
\* Variant: elapsed_time kept from the call before (a module-level counter).
Enter_KeepsElapsed(cb, ct, to) ==
    /\ callback' = cb
    /\ check_time' = ct
    /\ timeout' = to
    /\ elapsed_time' = elapsed_time
    /\ pc' = "while"
    /\ raised' = ""
    /\ trace' = << >>

\* def wait_till_delete(callback, check_time, timeout): elapsed_time = 0
Enter(cb, ct, to) ==
    /\ callback' = cb
    /\ check_time' = ct
    /\ timeout' = to
    /\ elapsed_time' = 0
    /\ pc' = "while"
    /\ raised' = ""
    /\ trace' = << >>

\* Variant: the bound compared with <= instead of <.
LoopTest_Inclusive ==
    /\ pc = "while"
    /\ IF timeout = None \/ elapsed_time <= SecsOf(timeout)
       THEN pc' = "try" /\ raised' = raised
       ELSE pc' = "timed_out" /\ raised' = "TimeoutError"
    /\ UNCHANGED << training, callback, check_time, timeout, elapsed_time, trace,
                    inv, prev, notebook, requested >>

\* Variant: None taken for a bound of 0 (the "timeout is None" test dropped).
LoopTest_NoneIsZero ==
    /\ pc = "while"
    /\ IF timeout # None /\ elapsed_time < SecsOf(timeout)
       THEN pc' = "try" /\ raised' = raised
       ELSE pc' = "timed_out" /\ raised' = "TimeoutError"
    /\ UNCHANGED << training, callback, check_time, timeout, elapsed_time, trace,
                    inv, prev, notebook, requested >>

\* Variant: the test looks one interval ahead.
LoopTest_Lookahead ==
    /\ pc = "while"
    /\ IF timeout = None \/ elapsed_time + check_time < SecsOf(timeout)
       THEN pc' = "try" /\ raised' = raised
       ELSE pc' = "timed_out" /\ raised' = "TimeoutError"
    /\ UNCHANGED << training, callback, check_time, timeout, elapsed_time, trace,
                    inv, prev, notebook, requested >>

\* while timeout is None or elapsed_time < timeout: ...
\* raise TimeoutError("Forecast resource deletion timed-out.")
LoopTest ==
    /\ pc = "while"
    /\ IF timeout = None \/ elapsed_time < SecsOf(timeout)
       THEN pc' = "try" /\ raised' = raised
       ELSE pc' = "timed_out" /\ raised' = "TimeoutError"
    /\ UNCHANGED << training, callback, check_time, timeout, elapsed_time, trace,
                    inv, prev, notebook, requested >>

\* Variant: break instead of return on ResourceNotFoundException, so that the
\* raise after the loop is reached.
CallCallback_Break ==
    /\ pc = "try"
    /\ timeout = None => Calls(trace) < MaxCalls
    /\ LET o == CallbackOutcome(callback, Calls(trace) + 1) IN
       /\ trace' = Append(trace, CallEv(o, Target(callback)))
       /\ requested' = requested \cup {Target(callback)}
       /\ IF o = Returned
          THEN pc' = "sleep" /\ raised' = raised
          ELSE IF IsClientError(o)
               THEN IF o = NotFound
                    THEN pc' = "timed_out" /\ raised' = "TimeoutError"
                    ELSE pc' = "error" /\ raised' = o
               ELSE pc' = "error" /\ raised' = o
    /\ UNCHANGED << training, callback, check_time, timeout, elapsed_time,
                    inv, prev, notebook >>

\* Variant: a ClientError with another code is swallowed and the loop goes on.
CallCallback_Swallow ==
    /\ pc = "try"
    /\ timeout = None => Calls(trace) < MaxCalls
    /\ LET o == CallbackOutcome(callback, Calls(trace) + 1) IN
       /\ trace' = Append(trace, CallEv(o, Target(callback)))
       /\ requested' = requested \cup {Target(callback)}
       /\ IF o = Returned
          THEN pc' = "sleep" /\ raised' = raised
          ELSE IF IsClientError(o)
               THEN IF o = NotFound
                    THEN pc' = "done" /\ raised' = raised
                    ELSE pc' = "sleep" /\ raised' = raised
               ELSE pc' = "error" /\ raised' = o
    /\ UNCHANGED << training, callback, check_time, timeout, elapsed_time,
                    inv, prev, notebook >>

\* try: out = callback()
\* except ClientError as e: ResourceNotFoundException -> return, else raise
CallCallback ==
    /\ pc = "try"
    /\ timeout = None => Calls(trace) < MaxCalls
    /\ LET o == CallbackOutcome(callback, Calls(trace) + 1) IN
       /\ trace' = Append(trace, CallEv(o, Target(callback)))
       /\ requested' = requested \cup {Target(callback)}
       /\ IF o = Returned
          THEN pc' = "sleep" /\ raised' = raised
          ELSE IF IsClientError(o)
               THEN IF o = NotFound
                    THEN pc' = "done" /\ raised' = raised
                    ELSE pc' = "error" /\ raised' = o
               ELSE pc' = "error" /\ raised' = o
    /\ UNCHANGED << training, callback, check_time, timeout, elapsed_time,
                    inv, prev, notebook >>

\* Variant: the sleep put in a finally clause, so that it also runs when the
\* try block returns or raises.
Sleep_InFinally ==
    /\ pc \in {"sleep", "done", "error"}
    /\ trace # << >> /\ trace[Len(trace)].ev = "call"
    /\ trace' = Append(trace, SleepEv(check_time))
    /\ elapsed_time' = elapsed_time + check_time
    /\ pc' = IF pc = "sleep" THEN "while" ELSE pc
    /\ UNCHANGED << training, callback, check_time, timeout, raised,
                    inv, prev, notebook, requested >>

\* Variant: the interval grows with every sleep (a linear backoff).
Sleep_Backoff ==
    /\ pc = "sleep"
    /\ trace' = Append(trace, SleepEv(check_time * (Sleeps(trace) + 1)))
    /\ elapsed_time' = elapsed_time + check_time * (Sleeps(trace) + 1)
    /\ pc' = "while"
    /\ UNCHANGED << training, callback, check_time, timeout, raised,
                    inv, prev, notebook, requested >>

\* Variant: elapsed_time measured on the wall clock, so that the second spent
\* in the callback is counted too.
Sleep_WallClock ==
    /\ pc = "sleep"
    /\ trace' = Append(trace, SleepEv(check_time))
    /\ elapsed_time' = elapsed_time + check_time + 1
    /\ pc' = "while"
    /\ UNCHANGED << training, callback, check_time, timeout, raised,
                    inv, prev, notebook, requested >>

\* Variant: the accumulation forgotten.
Sleep_NoAccumulate ==
    /\ pc = "sleep"
    /\ trace' = Append(trace, SleepEv(check_time))
    /\ elapsed_time' = elapsed_time
    /\ pc' = "while"
    /\ UNCHANGED << training, callback, check_time, timeout, raised,
                    inv, prev, notebook, requested >>

\* time.sleep(check_time); elapsed_time += check_time
Sleep ==
    /\ pc = "sleep"
    /\ trace' = Append(trace, SleepEv(check_time))
    /\ elapsed_time' = elapsed_time + check_time
    /\ pc' = "while"
    /\ UNCHANGED << training, callback, check_time, timeout, raised,
                    inv, prev, notebook, requested >>

Step == LoopTest \/ CallCallback \/ Sleep

\* ------------------------------------------------------------- the harness
\* The arguments the harness passes: small ones, and the defaults of the def.
HarnessArgs ==
    {<< ct, to >> : ct \in 1..MaxCheck,
                    to \in {None} \cup {Secs(t) : t \in 0..MaxTimeout}}
        \cup {<< DEFAULT_CHECK_TIME, Secs(DEFAULT_TIMEOUT) >>}
HarnessProbes ==
    {Probe(HarnessKey, 0, NotFound)}
        \cup {Probe(HarnessKey, k, kind) : k \in 1..MaxK, kind \in Raises}

\* wait_till_delete(cb, ct, to), called when no call is running
Invoke ==
    /\ cell = 0
    /\ pc \in {"idle"} \cup Terminal
    /\ inv < MaxInv
    /\ \E cb \in HarnessProbes, a \in HarnessArgs : Enter(cb, a[1], a[2])
    /\ inv' = inv + 1
    /\ prev' = [outcome |-> pc, elapsed_time |-> elapsed_time]
    /\ UNCHANGED << training, notebook, requested >>

Init ==
    /\ callback = NoProbe
    /\ check_time = DEFAULT_CHECK_TIME
    /\ timeout = Secs(DEFAULT_TIMEOUT)
    /\ elapsed_time = 0
    /\ pc = "idle"
    /\ raised = ""
    /\ trace = << >>
    /\ inv = 0
    /\ prev = [outcome |-> "idle", elapsed_time |-> 0]
    /\ cell = 0
    /\ iter = 1
    /\ arn = ""
    /\ status = [k \in Keys |-> "not_started"]
    /\ requested = {}
    /\ stopped = FALSE
    /\ pipeline_deleted = FALSE
    /\ TrainingOff

Next == Invoke \/ LoopTest \/ CallCallback \/ Sleep

Spec == Init /\ [][Next]_vars

\* The interpreter runs the call to its end: every callback call and every
\* sleep returns, and the next statement is executed.
FairSpec == Spec /\ WF_vars(Step)

\* ------------------------------------------------- the clean-up cells
\* Cells 1 and 4 wait for one resource, cells 2 and 3 loop over two, cell 5
\* deletes the pipeline.  The cells run top to bottom; an exception leaving a
\* cell stops the run.
LastCell == 5
CellKeys(c) ==
    CASE c = 1 -> << "forecast_arn_predictor" >>
      [] c = 2 -> << "target_import_job_arn", "related_import_job_arn" >>
      [] c = 3 -> << "target_dataset_arn", "related_dataset_arn" >>
      [] c = 4 -> << "dataset_group_arn" >>
      [] OTHER -> << >>
IsLoopCell(c) == c \in {2, 3}

\* What the Forecast service may answer to the repeated delete requests for
\* one resource: every request accepted, or the k-th one refused.
DefaultCalls == DEFAULT_TIMEOUT \div DEFAULT_CHECK_TIME
ServiceAnswers ==
    {<< 0, NotFound >>}
        \cup {<< k, kind >> : k \in 1..DefaultCalls, kind \in Raises}

\* wait_till_delete(lambda: forecast.delete_...(...=model_params[KEY]))
CellWait ==
    /\ cell \in 1..4 /\ ~IsLoopCell(cell) /\ ~stopped
    /\ pc \notin Polling
    /\ status[CellKeys(cell)[1]] = "not_started"
    /\ \E a \in ServiceAnswers :
          Enter(Probe(CellKeys(cell)[1], a[1], a[2]),
                DEFAULT_CHECK_TIME, Secs(DEFAULT_TIMEOUT))
    /\ status' = [status EXCEPT ![CellKeys(cell)[1]] = "polling"]
    /\ UNCHANGED << training, inv, prev, cell, iter, arn, requested, stopped, pipeline_deleted >>

\* for arn in [KEY1, KEY2]: wait_till_delete(lambda: ...model_params[arn])
LoopWait ==
    /\ cell \in 1..4 /\ IsLoopCell(cell) /\ ~stopped
    /\ pc \notin Polling
    /\ status[CellKeys(cell)[iter]] = "not_started"
    /\ arn' = CellKeys(cell)[iter]
    /\ \E a \in ServiceAnswers :
          Enter(Probe(LateBound, a[1], a[2]),
                DEFAULT_CHECK_TIME, Secs(DEFAULT_TIMEOUT))
    /\ status' = [status EXCEPT ![CellKeys(cell)[iter]] = "polling"]
    /\ UNCHANGED << training, inv, prev, cell, iter, requested, stopped, pipeline_deleted >>

\* The call returned: the next iteration, or the next cell.
WaitReturns ==
    /\ cell \in 1..4 /\ ~stopped
    /\ pc = "done"
    /\ status[CellKeys(cell)[iter]] = "polling"
    /\ status' = [status EXCEPT ![CellKeys(cell)[iter]] = "done"]
    /\ IF iter < Len(CellKeys(cell))
       THEN cell' = cell /\ iter' = iter + 1
       ELSE cell' = cell + 1 /\ iter' = 1
    /\ UNCHANGED << training, frame, inv, prev, arn, requested, stopped, pipeline_deleted >>

\* Variant: the exception is caught around the call and the run goes on.
WaitRaises_Continue ==
    /\ cell \in 1..4 /\ ~stopped
    /\ pc \in {"error", "timed_out"}
    /\ status[CellKeys(cell)[iter]] = "polling"
    /\ status' = [status EXCEPT ![CellKeys(cell)[iter]] = pc]
    /\ IF iter < Len(CellKeys(cell))
       THEN cell' = cell /\ iter' = iter + 1
       ELSE cell' = cell + 1 /\ iter' = 1
    /\ UNCHANGED << training, frame, inv, prev, arn, requested, stopped, pipeline_deleted >>

\* The call raised: the exception leaves the loop and the cell.
WaitRaises ==
    /\ cell \in 1..4 /\ ~stopped
    /\ pc \in {"error", "timed_out"}
    /\ status[CellKeys(cell)[iter]] = "polling"
    /\ status' = [status EXCEPT ![CellKeys(cell)[iter]] = pc]
    /\ stopped' = TRUE
    /\ UNCHANGED << training, frame, inv, prev, cell, iter, arn, requested, pipeline_deleted >>

\* pipeline.delete()
PipelineDelete ==
    /\ cell = LastCell /\ ~stopped
    /\ pipeline_deleted' = TRUE
    /\ cell' = LastCell + 1
    /\ UNCHANGED << training, frame, inv, prev, iter, arn, status, requested, stopped >>

CleanupInit ==
    /\ callback = NoProbe
    /\ check_time = DEFAULT_CHECK_TIME
    /\ timeout = Secs(DEFAULT_TIMEOUT)
    /\ elapsed_time = 0
    /\ pc = "idle"
    /\ raised = ""
    /\ trace = << >>
    /\ inv = 0
    /\ prev = [outcome |-> "idle", elapsed_time |-> 0]
    /\ cell = 1
    /\ iter = 1
    /\ arn = ""
    /\ status = [k \in Keys |-> "not_started"]
    /\ requested = {}
    /\ stopped = FALSE
    /\ pipeline_deleted = FALSE
    /\ TrainingOff

CleanupNext ==
    \/ CellWait \/ LoopWait \/ WaitReturns \/ WaitRaises \/ PipelineDelete
    \/ LoopTest \/ CallCallback \/ Sleep

CleanupSpec == CleanupInit /\ [][CleanupNext]_vars

\* Both drivers, with every started call run to its end.
AnyCallerSpec ==
    /\ Init \/ CleanupInit
    /\ [][Next \/ CleanupNext]_vars
    /\ WF_vars(Step)

\* ------------------------------------------- the training status loop
\* xgboost_parquet_input_training.ipynb: create the job, describe it, and poll
\* its status every 60 seconds.
TrainingJobStatuses == {"InProgress", "Completed", "Failed", "Stopping", "Stopped"}
Count(n) == IF n < MaxPolls THEN n + 1 ELSE n
wait_vars == << callback, check_time, timeout, elapsed_time, pc, raised, trace,
               inv, prev, cell, iter, arn, status, requested, stopped,
               pipeline_deleted >>

\* Variant: the loop sleeps before it looks at the job for the first time.
CreateTrainingJob_SleepFirst ==
    /\ train_pc = "create"
    /\ train_pc' = "sleep"
    /\ UNCHANGED << wait_vars, TrainingJobStatus, printed, describes,
                    train_sleeps, last_sleep >>

\* client.create_training_job(**create_training_params)
CreateTrainingJob ==
    /\ train_pc = "create"
    /\ train_pc' = "describe"
    /\ UNCHANGED << wait_vars, TrainingJobStatus, printed, describes,
                    train_sleeps, last_sleep >>

\* status = client.describe_training_job(...)["TrainingJobStatus"]
DescribeTrainingJob ==
    /\ train_pc = "describe"
    /\ \E st \in TrainingJobStatuses : TrainingJobStatus' = st
    /\ describes' = Count(describes)
    /\ train_pc' = "print"
    /\ UNCHANGED << wait_vars, printed, train_sleeps, last_sleep >>

\* print(status)
PrintStatus ==
    /\ train_pc = "print"
    /\ printed' = TrainingJobStatus
    /\ train_pc' = "while"
    /\ UNCHANGED << wait_vars, TrainingJobStatus, describes, train_sleeps,
                    last_sleep >>

\* Variant: every status but the two running ones ends the loop.
TrainLoopTest_StopsOnStopped ==
    /\ train_pc = "while"
    /\ train_pc' = IF TrainingJobStatus \in {"InProgress", "Stopping"}
                   THEN "sleep" ELSE "exited"
    /\ UNCHANGED << wait_vars, TrainingJobStatus, printed, describes,
                    train_sleeps, last_sleep >>

\* Variant: the loop gives up after three describe calls.
TrainLoopTest_Limited ==
    /\ train_pc = "while"
    /\ train_pc' = IF /\ TrainingJobStatus # "Completed"
                      /\ TrainingJobStatus # "Failed"
                      /\ describes < 3
                   THEN "sleep" ELSE "exited"
    /\ UNCHANGED << wait_vars, TrainingJobStatus, printed, describes,
                    train_sleeps, last_sleep >>

\* while status != "Completed" and status != "Failed":
TrainLoopTest ==
    /\ train_pc = "while"
    /\ train_pc' = IF TrainingJobStatus # "Completed" /\ TrainingJobStatus # "Failed"
                   THEN "sleep" ELSE "exited"
    /\ UNCHANGED << wait_vars, TrainingJobStatus, printed, describes,
                    train_sleeps, last_sleep >>

\* time.sleep(60)
TrainSleep ==
    /\ train_pc = "sleep"
    /\ last_sleep' = POLL_SECONDS
    /\ train_sleeps' = Count(train_sleeps)
    /\ train_pc' = "describe"
    /\ UNCHANGED << wait_vars, TrainingJobStatus, printed, describes >>

TrainInit ==
    /\ callback = NoProbe
    /\ check_time = DEFAULT_CHECK_TIME
    /\ timeout = Secs(DEFAULT_TIMEOUT)
    /\ elapsed_time = 0
    /\ pc = "idle"
    /\ raised = ""
    /\ trace = << >>
    /\ inv = 0
    /\ prev = [outcome |-> "idle", elapsed_time |-> 0]
    /\ cell = 0
    /\ iter = 1
    /\ arn = ""
    /\ status = [k \in Keys |-> "not_started"]
    /\ requested = {}
    /\ stopped = FALSE
    /\ pipeline_deleted = FALSE
    /\ train_pc = "create"
    /\ TrainingJobStatus = ""
    /\ printed = ""
    /\ describes = 0
    /\ train_sleeps = 0
    /\ last_sleep = 0

TrainNext ==
    \/ CreateTrainingJob \/ DescribeTrainingJob \/ PrintStatus
    \/ TrainLoopTest \/ TrainSleep

TrainSpec == TrainInit /\ [][TrainNext]_vars

\* The interpreter runs the cell statement by statement; every describe call
\* and every sleep returns.
TrainFairSpec == TrainSpec /\ WF_vars(TrainNext)

\* ======================================================== the properties
\* In the harness the probe "returns normally on calls 1..k-1 and raises E on
\* call k" is the callback with raisesAt = k and kind = E; raisesAt = 0 is the
\* probe that always returns normally.
K == callback.raisesAt
Bounded == timeout # None
T == SecsOf(timeout)
NCalls == Calls(trace)
NSleeps == Sleeps(trace)
Returns(k) == pc = "done" /\ raised = ""
                /\ NCalls = k /\ NSleeps = k - 1
                /\ Slept(trace) = (k - 1) * check_time

\* C1 as stated: whatever the timeout, a probe raising NotFound on call k makes
\* the wait return after exactly k calls and k-1 sleeps of check_time each.
C1_AnyTimeout ==
    (pc \in Terminal /\ K >= 1 /\ callback.kind = NotFound) => Returns(K)

\* C1 amended: the same, provided timeout is None or (k-1) * check_time < timeout.
C1_ReturnsAfterK ==
    (/\ pc \in Terminal /\ K >= 1 /\ callback.kind = NotFound
     /\ (~Bounded \/ (K - 1) * check_time < T))
    => Returns(K)

\* k = 3, check_time = 5, timeout = 100: three calls, ten seconds of sleep.
C1_Witness ==
    /\ check_time = 5 /\ timeout = Secs(100) /\ K = 3
    /\ pc = "done" /\ NCalls = 3 /\ Slept(trace) = 10

\* C2: with a timeout T configured and a probe that always returns normally,
\* the wait ends in TimeoutError; the loop test that finds elapsed_time >= T
\* raises it at once, and no callback call and no sleep happens in a state
\* where elapsed_time >= T.
C2_TimesOutAtBound ==
    /\ [](Bounded /\ pc \in {"try", "sleep"} => elapsed_time < T)
    /\ [][(pc = "while" /\ Bounded /\ elapsed_time >= T)
            => (pc' = "timed_out" /\ raised' = "TimeoutError" /\ trace' = trace)]_vars
    /\ []((pc \in Terminal /\ Bounded /\ K = 0)
            => (pc = "timed_out" /\ raised = "TimeoutError" /\ elapsed_time >= T))
    /\ [](Bounded /\ K = 0 /\ pc \in Polling => <>(pc = "timed_out"))

\* A wait that slept past a bound its interval does not divide, and timed out.
C2_Witness ==
    /\ pc = "timed_out" /\ K = 0 /\ Bounded
    /\ elapsed_time > T /\ NSleeps >= 2

\* C3: a callback call that fails with anything but NotFound is the last thing
\* the wait does: the same exception leaves the call, no sleep and no further
\* callback call follow it, and the outcome is neither a return nor
\* TimeoutError.
IsOtherError(e) == e.ev = "call" /\ e.out \notin {Returned, NotFound}
C3_ErrorPropagates ==
    /\ [](\A i \in 1..Len(trace) :
            IsOtherError(trace[i])
              => (i = Len(trace) /\ pc = "error" /\ raised = trace[i].out))
    /\ [][(pc = "error" /\ inv' = inv)
            => (trace' = trace /\ pc' = pc /\ raised' = raised)]_vars

\* The third call failed with an error that is not a ClientError.
C3_Witness ==
    pc = "error" /\ NCalls = 3 /\ NSleeps = 2 /\ raised = ConnError

\* C4: with timeout = None no state of the wait is a TimeoutError, however far
\* elapsed_time has grown, and a probe raising NotFound on call k makes the
\* wait return after k calls.
C4_UnboundedNeverTimesOut ==
    /\ [](~Bounded => (pc # "timed_out" /\ raised # "TimeoutError"))
    /\ []((~Bounded /\ K >= 1 /\ callback.kind = NotFound /\ pc \in Terminal)
            => Returns(K))
    /\ []((~Bounded /\ K >= 1 /\ callback.kind = NotFound /\ pc \in Polling)
            => <>(pc = "done"))

\* Unbounded, NotFound on the 3rd call, with the longest interval.
C4_Witness ==
    /\ ~Bounded /\ K = 3 /\ pc = "done" /\ check_time = MaxCheck
    /\ elapsed_time = 2 * MaxCheck

\* C5 as stated: no wait ends in TimeoutError without a callback call, for
\* every configured bound, 0 included.
C5_AlwaysOneProbe ==
    pc = "timed_out" => NCalls >= 1

\* C5 amended: a wait with a bound > 0 never ends in TimeoutError without a
\* callback call; with a bound of 0 the first loop test fails and TimeoutError
\* is raised with no callback call at all.
C5_OneProbeIfPositive ==
    /\ (pc = "timed_out" /\ Bounded /\ T > 0) => NCalls >= 1
    /\ (Bounded /\ T = 0 /\ pc \in Polling \cup Terminal)
         => (NCalls = 0 /\ pc \in {"while", "timed_out"})

\* The smallest positive bound: one call, one sleep, then TimeoutError.
C5_Witness ==
    pc = "timed_out" /\ Bounded /\ T = 1 /\ NCalls = 1

\* C6: one invocation is a linear state machine.  It is polling from its start,
\* leaves polling only for done, error or timed_out, and in one of those three
\* nothing of the invocation changes any more: no callback call, no sleep, no
\* other state.  done is a plain return, error carries the probe's exception,
\* timed_out carries TimeoutError.
C6_LinearStateMachine ==
    /\ [](pc \in {"idle"} \cup Polling \cup Terminal)
    /\ [](inv >= 1 => pc # "idle")
    /\ [](/\ pc \in Polling => raised = ""
          /\ pc = "done" => raised = ""
          /\ pc = "error" => raised \in Raises \ {NotFound}
          /\ pc = "timed_out" => raised = "TimeoutError")
    /\ [][inv' = inv
           => /\ pc \in Polling => pc' \in Polling \cup Terminal
              /\ pc \in Terminal => UNCHANGED frame]_vars

\* A second invocation that returned, after a first one that ended in error.
C6_Witness ==
    /\ inv = 2 /\ prev.outcome = "error"
    /\ pc = "done" /\ NCalls = 2

\* C7: an invocation that follows another one starts with elapsed_time = 0, and
\* its outcome, number of callback calls and total sleep are those its own
\* arguments give when it runs alone, whatever the invocation before it did.
CeilDiv(a, b) == (a + b - 1) \div b
Alone(cb, ct, to) ==
    IF cb.raisesAt >= 1 /\ (to = None \/ (cb.raisesAt - 1) * ct < SecsOf(to))
    THEN [outcome |-> IF cb.kind = NotFound THEN "done" ELSE "error",
          raised |-> IF cb.kind = NotFound THEN "" ELSE cb.kind,
          calls |-> cb.raisesAt,
          slept |-> (cb.raisesAt - 1) * ct]
    ELSE [outcome |-> "timed_out",
          raised |-> "TimeoutError",
          calls |-> CeilDiv(SecsOf(to), ct),
          slept |-> CeilDiv(SecsOf(to), ct) * ct]
Result == [outcome |-> pc, raised |-> raised,
           calls |-> NCalls, slept |-> Slept(trace)]
C7_Independent ==
    /\ (inv >= 1 /\ pc = "while" /\ trace = << >>) => elapsed_time = 0
    /\ (inv >= 1 /\ pc \in Terminal) => Result = Alone(callback, check_time, timeout)

\* A second invocation that returns after a first one that timed out.
C7_Witness ==
    /\ inv = 2 /\ prev.outcome = "timed_out" /\ prev.elapsed_time > 0
    /\ pc = "done" /\ NCalls = 3 /\ Bounded

\* C8: a wait that ended in TimeoutError had a bound configured, has
\* elapsed_time >= that bound, and every callback call it made returned
\* normally.
C8_TimeoutOnlyAfterBound ==
    pc = "timed_out"
    => /\ raised = "TimeoutError"
       /\ Bounded /\ elapsed_time >= T
       /\ \A i \in 1..Len(trace) : trace[i].ev = "call" => trace[i].out = Returned

\* Timed out exactly at the bound after three calls.
C8_Witness ==
    pc = "timed_out" /\ NCalls = 3 /\ elapsed_time = T

\* C9: every sleep lasts check_time, a sleep directly follows a callback call
\* that returned normally, and check_time and timeout keep their values during
\* the invocation.
C9_FixedInterval ==
    /\ [](\A i \in 1..Len(trace) :
            trace[i].ev = "sleep"
              => /\ trace[i].secs = check_time
                 /\ i > 1 /\ trace[i - 1].ev = "call" /\ trace[i - 1].out = Returned)
    /\ [][inv' = inv => (check_time' = check_time /\ timeout' = timeout)]_vars
    /\ [][(inv' = inv /\ Sleeps(trace') = NSleeps + 1)
            => (pc = "sleep" /\ elapsed_time' = elapsed_time + check_time)]_vars

\* Three sleeps of more than one second each.
C9_Witness ==
    NSleeps = 3 /\ check_time = 2 /\ Slept(trace) = 6

\* C10: the clean-up waits run one after the other in the order predictor,
\* import jobs, datasets, dataset group: at most one is polling, a delete
\* request for a resource is sent only after the wait for the resource before
\* it has returned, and pipeline.delete() runs only after the last wait has
\* returned.
PollingNow == {k \in Keys : status[k] = "polling"}
C10_SequentialWaits ==
    /\ Cardinality(PollingNow) <= 1
    /\ pc \in Polling => status[Target(callback)] = "polling"
    /\ \A i \in 2..Len(CleanupKeys) :
          (CleanupKeys[i] \in requested \/ status[CleanupKeys[i]] # "not_started")
            => status[CleanupKeys[i - 1]] = "done"
    /\ \A k \in requested : status[k] # "not_started"
    /\ pipeline_deleted => status[CleanupKeys[Len(CleanupKeys)]] = "done"

\* All six waits returned and the pipeline was deleted.
C10_Witness ==
    /\ pipeline_deleted
    /\ \A i \in 1..Len(CleanupKeys) : status[CleanupKeys[i]] = "done"
    /\ requested = {CleanupKeys[i] : i \in 1..Len(CleanupKeys)}

\* C12: elapsed_time is check_time times the number of completed sleeps, which
\* is the total time slept; only the sleep step changes it, it never decreases
\* during an invocation, and the callback was called as often as the wait
\* slept, or once more.
C12_ElapsedIsSleepTime ==
    /\ [](/\ elapsed_time = check_time * NSleeps
          /\ elapsed_time = Slept(trace)
          /\ NCalls - NSleeps \in {0, 1}
          /\ (pc \in {"while", "try"} => NCalls = NSleeps)
          /\ (pc = "sleep" => NCalls = NSleeps + 1))
    /\ [][inv' = inv
           => /\ elapsed_time' >= elapsed_time
              /\ (elapsed_time' # elapsed_time => pc = "sleep")
              /\ (NCalls' # NCalls => (pc = "try" /\ elapsed_time' = elapsed_time))]_vars

\* Two sleeps of two seconds done, the third call made.
C12_Witness ==
    /\ pc = "sleep" /\ check_time = 2
    /\ NCalls = 3 /\ NSleeps = 2 /\ elapsed_time = 4

\* C13: with a bound T and a probe raising NotFound on call k, the wait returns
\* exactly when (k-1) * check_time < T; otherwise it ends in TimeoutError and
\* call k is never made.  A call k that is reached returns even when it is the
\* last call the bound allows.
BeforeBound(k) == (k - 1) * check_time < T
C13_ReturnsIffBeforeBound ==
    (Bounded /\ K >= 1 /\ callback.kind = NotFound)
    => /\ ~BeforeBound(K) => NCalls < K
       /\ pc \in Terminal
            => /\ pc = "done" <=> BeforeBound(K)
               /\ pc = "done" => NCalls = K
               /\ pc # "done" => (pc = "timed_out" /\ raised = "TimeoutError")

\* NotFound on call 3, the last call that a bound of 5 with 2-second sleeps allows.
C13_Witness ==
    /\ Bounded /\ T = 5 /\ check_time = 2 /\ K = 3 /\ callback.kind = NotFound
    /\ pc = "done" /\ elapsed_time = 4

\* C14: with a bound T >= 0 every wait ends, whatever the callback does, and
\* makes at most ceil(T / check_time) callback calls; with the defaults 5 and
\* 100, which every clean-up call uses, that is at most 20 delete requests per
\* resource.
C14_TerminatesWithinBound ==
    /\ [](Bounded => NCalls <= CeilDiv(T, check_time))
    /\ []((check_time = 5 /\ timeout = Secs(100)) => NCalls <= 20)
    /\ [](cell \in 1..4 => (check_time = 5 /\ timeout = Secs(100)))
    /\ []((Bounded /\ pc \in Polling) => <>(pc \in Terminal))

\* A clean-up wait that used all 20 requests and timed out.
C14_Witness ==
    /\ cell = 2 /\ arn = "related_import_job_arn"
    /\ pc = "timed_out" /\ NCalls = 20 /\ elapsed_time = 100

\* C15: a wait that ends in TimeoutError with a bound T > 0 has
\* T <= elapsed_time < T + check_time (more than T exactly when check_time does
\* not divide T), has made exactly ceil(T / check_time) callback calls, and its
\* last sleep was followed by the failing loop test, not by another call.
C15_OvershootBelowInterval ==
    (pc = "timed_out" /\ Bounded /\ T > 0)
    => /\ T <= elapsed_time /\ elapsed_time < T + check_time
       /\ (elapsed_time > T <=> T % check_time # 0)
       /\ NCalls = CeilDiv(T, check_time)
       /\ NSleeps = NCalls
       /\ trace[Len(trace)].ev = "sleep"

\* A bound of 5 overshot by one second with 2-second sleeps.
C15_Witness ==
    /\ pc = "timed_out" /\ T = 5 /\ check_time = 2
    /\ elapsed_time = 6 /\ NCalls = 3

\* C16: in the two clean-up for loops a wait for the first resource that ends
\* in error or timed_out ends the loop: no delete request is ever sent for the
\* second resource; and every request of an iteration goes to the resource
\* that iteration's arn names.
LoopCells == {c \in 1..4 : IsLoopCell(c)}
Failed(k) == status[k] \in {"error", "timed_out"}
C16_FailureLeavesLoop ==
    /\ \A c \in LoopCells :
          Failed(CellKeys(c)[1])
            => /\ CellKeys(c)[2] \notin requested
               /\ status[CellKeys(c)[2]] = "not_started"
               /\ stopped /\ cell = c /\ iter = 1
    /\ (callback.key = LateBound /\ pc \in Polling)
         => /\ IsLoopCell(cell) /\ arn = CellKeys(cell)[iter]
            /\ \A i \in 1..Len(trace) : trace[i].ev = "call" => trace[i].key = arn
    /\ (callback.key = LateBound)
         => \A i \in 1..Len(trace) : trace[i].ev = "call" => trace[i].key = arn

\* The wait for the first dataset timed out; the second was never requested.
C16_Witness ==
    /\ status["target_dataset_arn"] = "timed_out" /\ stopped
    /\ "related_dataset_arn" \notin requested
    /\ "target_dataset_arn" \in requested

\* C11: the training loop is left only on a final status: once it has exited,
\* the status describe_training_job returned last is Completed or Failed; on
\* every other status the loop test is followed by a sleep of 60 seconds and
\* another describe call.
FinalStatuses == {"Completed", "Failed"}
C11_ExitsOnlyOnFinalStatus ==
    /\ [](train_pc = "exited"
            => (TrainingJobStatus \in FinalStatuses /\ printed = TrainingJobStatus))
    /\ [][(train_pc' = "exited" /\ train_pc # "exited") => train_pc = "while"]_vars
    /\ [][(train_pc = "while" /\ TrainingJobStatus \notin FinalStatuses)
            => train_pc' = "sleep"]_vars
    /\ [][train_pc = "sleep"
            => (last_sleep' = 60 /\ train_pc' = "describe"
                /\ TrainingJobStatus' = TrainingJobStatus)]_vars
    /\ [][train_pc = "describe"
            => (train_pc' = "print" /\ TrainingJobStatus' \in TrainingJobStatuses)]_vars

\* The loop left on Failed, seen by the third describe call.
C11_Witness ==
    /\ train_pc = "exited" /\ TrainingJobStatus = "Failed"
    /\ describes = 3 /\ last_sleep = 60

\* C17: the job is described once before any sleep, then sleeps and describe
\* calls alternate; a describe call that returns Completed or Failed is
\* followed by the exit without another sleep or describe call, so between
\* two steps of the loop there is one more describe call than sleeps.
C17_DescribeThenAlternate ==
    /\ []((train_pc \in {"print", "while", "sleep", "exited"} /\ describes < MaxPolls)
            => describes = train_sleeps + 1)
    /\ []((train_pc = "describe" /\ train_sleeps < MaxPolls)
            => describes = train_sleeps)
    /\ [][train_sleeps' # train_sleeps
            => (describes >= 1 /\ train_pc = "sleep" /\ describes' = describes)]_vars
    /\ [][describes' # describes
            => (train_pc = "describe" /\ train_sleeps' = train_sleeps)]_vars
    /\ [][(train_pc = "print" /\ TrainingJobStatus \in FinalStatuses)
            => (train_pc' = "while" /\ UNCHANGED << describes, train_sleeps >>)]_vars
    /\ [][(train_pc = "while" /\ TrainingJobStatus \in FinalStatuses)
            => (train_pc' = "exited" /\ UNCHANGED << describes, train_sleeps >>)]_vars

\* Three describe calls and two sleeps, then the exit on Completed.
C17_Witness ==
    /\ train_pc = "exited" /\ TrainingJobStatus = "Completed"
    /\ describes = 3 /\ train_sleeps = 2

\* C18: the loop has no timeout and no attempt limit.  If no describe call
\* ever returns Completed or Failed (the job stays InProgress, or settles at
\* Stopped), the loop never exits and sleeps and describes again and again;
\* it exits if some describe call does return Completed or Failed.
NoFinalStatus == [](TrainingJobStatus \notin FinalStatuses)
PollsForever ==
    /\ [](train_pc # "exited")
    /\ []<>(train_pc = "sleep")
    /\ []<>(train_pc = "describe")
C18_NoLimit ==
    /\ NoFinalStatus => PollsForever
    /\ <>[](TrainingJobStatus = "Stopped") => PollsForever
    /\ <>[](TrainingJobStatus = "InProgress") => PollsForever
    /\ <>(TrainingJobStatus \in FinalStatuses) => <>(train_pc = "exited")

\* Still polling a stopped job after the counted number of describe calls.
C18_Witness ==
    /\ train_pc = "sleep" /\ TrainingJobStatus = "Stopped"
    /\ describes = MaxPolls /\ train_sleeps = MaxPolls

====
